---- MODULE Spec2Model ----
(***************************************************************************)
(* Model of the message dispatch and response-rendering controller of      *)
(* SelfGPT (src/components/chat-app.tsx), together with the chat store     *)
(* (src/context/chat-context.tsx) and the send/stop guards of the input    *)
(* box (src/components/message-input.tsx).                                 *)
(*                                                                         *)
(* JavaScript strings are sequences of one-character strings, so that      *)
(* toLowerCase, includes, indexOf, slice and trimEnd are computed.         *)
(*                                                                         *)
(* Scheduling: one action is one macro-task of the event loop (a UI event, *)
(* a network completion, a timer callback) run to its next suspension      *)
(* point, followed by the micro-tasks it makes runnable: when a handler    *)
(* calls controller.abort(), the fetch awaiting on that signal rejects and *)
(* its continuation runs right after the handler's synchronous code.       *)
(*                                                                         *)
(* Specifications: Spec (the controller, its handlers callable at any      *)
(* time), SpecUI (behind the guards of the input box), SpecTyping (every   *)
(* request answered with a reply, for the reveal), SpecLive (SpecUI with   *)
(* the browser's timers firing), SpecSplit and SpecSelector (one call of   *)
(* splitForTyping, resp. pickFastModel), SpecSettings (the settings        *)
(* provider of src/context/settings-context.tsx and its model list).       *)
(***************************************************************************)
EXTENDS Integers, Sequences, FiniteSets, TLC

\* ------------------------------------------------------------------ bounds
MaxDispatch == 2
\* the longest text given to splitForTyping when it is examined alone
MaxTextLen == 6
\* the longest candidate list given to pickFastModel when it is examined alone
MaxModels == 3
\* the most /api/models requests that are pending at the same time
MaxPending == 2

\* -------------------------------------------------------- program constants
REQUEST_TIMEOUT_MS == 30000
TYPE_CHUNK_SIZE == 10
TYPE_INTERVAL_MS == 28
TITLE_MAX == 50
MINI_PENALTY == 1000
FAST_PENALTY == 800

\* --------------------------------------------------------- string literals
APOLOGY ==
  <<"S", "o", "r", "r", "y", ",", " ", "s", "o", "m", "e", "t", "h", "i", "n",
    "g", " ", "w", "e", "n", "t", " ", "w", "r", "o", "n", "g", " ", "w", "h",
    "i", "l", "e", " ", "g", "e", "n", "e", "r", "a", "t", "i", "n", "g", " ",
    "a", " ", "r", "e", "s", "p", "o", "n", "s", "e", ".">>
UPLOAD_FAILED ==
  <<"F", "i", "l", "e", " ", "u", "p", "l", "o", "a", "d", " ", "f", "a", "i",
    "l", "e", "d">>
CHAT_FAILED ==
  <<"C", "h", "a", "t", " ", "r", "e", "q", "u", "e", "s", "t", " ", "f", "a",
    "i", "l", "e", "d">>
TIMED_OUT_TEXT ==
  <<"R", "e", "q", "u", "e", "s", "t", " ", "t", "i", "m", "e", "d", " ", "o",
    "u", "t", ".">>
\* the message of a rejection that is not an Error thrown by the handler
\* (network failure of fetch, invalid JSON body)
NETWORK_ERROR == <<"T", "y", "p", "e", "E", "r", "r", "o", "r">>
\* the character U+0060 (the lexer of TLA+ does not accept it inside a string)
BACKTICK == "BACKTICK"
FENCE == <<BACKTICK, BACKTICK, BACKTICK>>
ELLIPSIS == <<".", ".", ".">>
EMPTY == << >>

\* ------------------------------------------------------ JavaScript strings
Min(a, b) == IF a < b THEN a ELSE b

UpperToLower ==
  [c \in {"A", "B", "F", "I", "L", "M", "S", "T"} |->
     CASE c = "A" -> "a" [] c = "B" -> "b" [] c = "F" -> "f" [] c = "I" -> "i"
       [] c = "L" -> "l" [] c = "M" -> "m" [] c = "S" -> "s" [] c = "T" -> "t"]

\* mutant of toLowerCase: the identifier is matched as it is written
toLowerCase_Identity(s) == s

\* String.prototype.toLowerCase
toLowerCase(s) ==
  [i \in 1..Len(s) |-> IF s[i] \in DOMAIN UpperToLower THEN UpperToLower[s[i]] ELSE s[i]]

\* true iff sub occurs in s at 0-based index i
OccursAt(s, sub, i) ==
  /\ i + Len(sub) <= Len(s)
  /\ \A k \in 1..Len(sub) : s[i + k] = sub[k]

\* String.prototype.includes
includes(s, sub) == \E i \in 0..Len(s) : OccursAt(s, sub, i)

\* String.prototype.indexOf: 0-based index of the first occurrence, or -1
indexOf(s, sub) ==
  IF includes(s, sub)
    THEN CHOOSE i \in 0..Len(s) :
           OccursAt(s, sub, i) /\ \A j \in 0..(i - 1) : ~OccursAt(s, sub, j)
    ELSE -1

\* String.prototype.slice(from, to) for 0 <= from, to (0-based, to exclusive)
slice(s, from, to) == SubSeq(s, from + 1, Min(to, Len(s)))

WhiteSpace == {" ", "\n", "\t", "\r"}

\* String.prototype.trimEnd
RECURSIVE trimEnd(_)
trimEnd(s) ==
  IF Len(s) > 0 /\ s[Len(s)] \in WhiteSpace
    THEN trimEnd(SubSeq(s, 1, Len(s) - 1))
    ELSE s

\* ---------------------------------------------------------- splitForTyping
\* mutant of splitForTyping: the typed part keeps its trailing white space
splitForTyping_NoTrim(text) ==
  LET fenceIndex == indexOf(text, FENCE) IN
    IF fenceIndex = -1
      THEN [typed |-> text, suffix |-> EMPTY]
      ELSE [typed |-> slice(text, 0, fenceIndex),
            suffix |-> slice(text, fenceIndex, Len(text))]

\* lines 40-49
splitForTyping(text) ==
  LET fenceIndex == indexOf(text, FENCE) IN
    IF fenceIndex = -1
      THEN [typed |-> text, suffix |-> EMPTY]
      ELSE [typed |-> trimEnd(slice(text, 0, fenceIndex)),
            suffix |-> slice(text, fenceIndex, Len(text))]

\* ----------------------------------------------------------- pickFastModel
\* The pattern of line 59 is written /\\d+(?:\\.\\d+)?/g inside a regular
\* expression literal: "\\" is an escaped backslash, so a match is a literal
\* backslash followed by one or more letters d (optionally followed by a
\* backslash, any character, a backslash and letters d).  Digits do not match.
NumTokenMatches(lower) ==
  \E i \in 1..Len(lower) :
     /\ lower[i] = "\\"
     /\ i + 1 <= Len(lower)
     /\ lower[i + 1] = "d"

\* A score is a JavaScript number: Number() of a matched token (it starts
\* with a backslash) is NaN, and NaN absorbs the subtraction.
Score(name) ==
  LET lower == toLowerCase(name)
      s1 == IF \/ includes(lower, <<"m", "i", "n", "i">>)
               \/ includes(lower, <<"l", "i", "t", "e">>)
               \/ includes(lower, <<"s", "m", "a", "l", "l">>)
              THEN 0 - MINI_PENALTY ELSE 0
      s2 == IF \/ includes(lower, <<"i", "n", "s", "t", "a", "n", "t">>)
               \/ includes(lower, <<"f", "a", "s", "t">>)
              THEN s1 - FAST_PENALTY ELSE s1
  IN  [nan |-> NumTokenMatches(lower), v |-> s2]

\* the comparator (a, b) => a.score - b.score; NaN is treated as 0 by sort
Compare(a, b) == IF a.score.nan \/ b.score.nan THEN 0 ELSE a.score.v - b.score.v

\* Array.prototype.sort is stable: x goes before the first element that
\* compares greater than x
RECURSIVE InsertSorted(_, _)
InsertSorted(x, sorted) ==
  IF sorted = << >> THEN <<x>>
  ELSE IF Compare(sorted[1], x) > 0 THEN <<x>> \o sorted
  ELSE <<sorted[1]>> \o InsertSorted(x, Tail(sorted))

RECURSIVE SortByScore(_)
SortByScore(list) ==
  IF list = << >> THEN << >>
  ELSE InsertSorted(list[Len(list)], SortByScore(SubSeq(list, 1, Len(list) - 1)))

\* mutant of pickFastModel: the best candidate is returned even when it is
\* the current model
pickFastModel_NoTieBreak(list, current) ==
  IF Len(list) = 0 THEN EMPTY
  ELSE
    LET scored == SortByScore([i \in 1..Len(list) |-> [name |-> list[i], score |-> Score(list[i])]])
    IN  IF scored[1].name # EMPTY THEN scored[1].name ELSE list[1]

\* lines 51-67
pickFastModel(list, current) ==
  IF Len(list) = 0 THEN EMPTY
  ELSE
    LET scored == SortByScore([i \in 1..Len(list) |-> [name |-> list[i], score |-> Score(list[i])]])
        best == IF scored[1].name # EMPTY THEN scored[1].name ELSE list[1]
    IN  IF current # EMPTY /\ best = current /\ Len(scored) > 1
          THEN scored[2].name
          ELSE best


\* ------------------------------------------------------------ input domains
M_A_MINI == <<"a", "-", "m", "i", "n", "i">>
M_B_LARGE == <<"b", "-", "l", "a", "r", "g", "e">>

\* (candidate list, configured model) pairs exposed by the settings provider
Configs ==
  { [models |-> <<M_A_MINI, M_B_LARGE>>, model |-> M_B_LARGE],
    [models |-> << >>,                   model |-> M_B_LARGE],
    [models |-> <<M_A_MINI>>,            model |-> M_A_MINI],
    [models |-> <<M_A_MINI, M_B_LARGE>>, model |-> EMPTY] }

\* No handler inspects the text except for its length (the title), so one
\* short text stands for all texts of at most TITLE_MAX characters.
Texts == { <<"h", "i">> }

REPLY_PLAIN ==
  <<"h", "e", "l", "l", "o", " ", "w", "o", "r", "l", "d", ",", " ", "o", "k">>
REPLY_FENCED ==
  <<"h", "i", "\n", "\n", BACKTICK, BACKTICK, BACKTICK, "p", "y",
    BACKTICK, BACKTICK, BACKTICK>>

\* the parsed JSON body of a successful /api/chat response: isString is
\* typeof data.message === 'string'
Datas ==
  { [isString |-> TRUE,  message |-> REPLY_PLAIN],
    [isString |-> TRUE,  message |-> REPLY_FENCED],
    [isString |-> TRUE,  message |-> EMPTY],
    [isString |-> FALSE, message |-> EMPTY] }

\* replies for the reveal: typed prefixes of 0, 10, 11, 20 and 21 characters
\* a reply that starts with a code block: typed is empty
REPLY_CODE_ONLY ==
  <<BACKTICK, BACKTICK, BACKTICK, "x", BACKTICK, BACKTICK, BACKTICK>>
\* typed has exactly one chunk
REPLY_10 ==
  <<"0", "1", "2", "3", "4", "5", "6", "7", "8", "9">>
\* one character more than a chunk
REPLY_11 ==
  <<"0", "1", "2", "3", "4", "5", "6", "7", "8", "9", "a">>
\* two chunks, a line break and a code block
REPLY_20_FENCED ==
  <<"0", "1", "2", "3", "4", "5", "6", "7", "8", "9", "a", "b", "c", "d",
    "e", "f", "g", "h", "i", "j", "\n", BACKTICK, BACKTICK, BACKTICK, "x",
    BACKTICK, BACKTICK, BACKTICK>>
\* one character more than two chunks
REPLY_21 ==
  <<"0", "1", "2", "3", "4", "5", "6", "7", "8", "9", "a", "b", "c", "d",
    "e", "f", "g", "h", "i", "j", "k">>

TypingReplies == {REPLY_CODE_ONLY, REPLY_10, REPLY_11, REPLY_20_FENCED, REPLY_21}
TypingDatas == { [isString |-> TRUE, message |-> m] : m \in TypingReplies }

\* the identifiers given to pickFastModel when it is examined alone
M_7B ==
  <<"m", "-", "7", "b">>
M_70B ==
  <<"m", "-", "7", "0", "b">>
M_LLAMA_INSTANT ==
  <<"l", "l", "a", "m", "a", "-", "3", ".", "1", "-", "8", "b", "-", "i",
    "n", "s", "t", "a", "n", "t">>
M_LLAMA_VERSATILE ==
  <<"l", "l", "a", "m", "a", "-", "3", ".", "3", "-", "7", "0", "b", "-",
    "v", "e", "r", "s", "a", "t", "i", "l", "e">>
M_LITE_FAST ==
  <<"L", "i", "t", "e", "-", "F", "A", "S", "T">>
M_X_SMALL ==
  <<"x", "-", "s", "m", "a", "l", "l">>

SelectorNames ==
  {M_A_MINI, M_7B, M_70B, M_LLAMA_INSTANT, M_LLAMA_VERSATILE, M_LITE_FAST,
   M_X_SMALL}

\* the candidate lists: refreshModels drops empty names and duplicates
\* (settings-context.tsx, line 158)
SelectorLists ==
  { l \in UNION { [1..n -> SelectorNames] : n \in 0..MaxModels } :
      \A i, j \in 1..Len(l) : i # j => l[i] # l[j] }

\* settings.model: any identifier, or the empty string (line 41)
SelectorCurrents == SelectorNames \cup {EMPTY}

\* the texts given to splitForTyping when it is examined alone: a letter,
\* two white space characters and the backtick, in every arrangement
SplitAlphabet == {"a", " ", "\n", BACKTICK}
SplitTexts == UNION { [1..n -> SplitAlphabet] : n \in 0..MaxTextLen }

\* the text body of a non-success response
ErrorBodies == { <<"q", "u", "o", "t", "a">>, EMPTY }

THREAD == "t1"

\* provider ids: DEFAULT_SETTINGS.provider and two others of /api/config
GROQ == "groq"
OPENAI == "openai"
OLLAMA == "ollama"
Providers == {GROQ, OPENAI, OLLAMA}

\* data.models of the /api/models response for each provider: a list with a
\* duplicate and a list with an empty entry among them
ModelsOf ==
  [p \in Providers |->
     CASE p = GROQ -> <<M_LLAMA_INSTANT, M_LLAMA_VERSATILE>>
       [] p = OPENAI -> <<M_A_MINI, M_B_LARGE, M_A_MINI>>
       [] p = OLLAMA -> <<EMPTY, M_7B, M_70B>>]

\* modelError: null, or the message of the error
NO_ERROR == "null"
LOAD_FAILED == "Unable to load models"

\* -------------------------------------------------------------------- state
VARIABLES
  isLoading,       \* useState: the busy flag
  isTyping,        \* useState: the "is revealing" flag
  abortRef,        \* useRef: the retained AbortController, or Null
  manualAbortRef,  \* useRef: set by handleStop before it aborts
  typingRef,       \* useRef: the reveal interval handle (its dispatch), or 0
  disp,            \* the invocations of handleSendMessage, by number
  reveal,          \* the interval created by each invocation
  chats,           \* ChatProvider: the entry of the chat in the chat list
  activeChat,      \* ChatProvider: the active chat
  settings,        \* SettingsProvider: settings
  models,          \* SettingsProvider: models
  pending,         \* SettingsProvider: the providers of the /api/models
                   \* requests that have not been answered yet
  modelError,      \* SettingsProvider: modelError
  console,         \* what the latest step passed to console.error (line 212)
  call             \* a call of a pure function of the component: its
                   \* arguments and, once it has returned, its result

vars == <<isLoading, isTyping, abortRef, manualAbortRef, typingRef, disp,
          reveal, chats, activeChat, settings, models, pending, modelError,
          console, call>>

Dispatches == 1..MaxDispatch

Null == [d |-> 0, a |-> 0]
Controller(d, a) == [d |-> d, a |-> a]

NoDispatch ==
  [pc |-> "none", chatId |-> THREAD, text |-> EMPTY, files |-> FALSE,
   settingsModel |-> EMPTY, models |-> << >>, fastModel |-> EMPTY,
   upload |-> "", reqs |-> << >>, ends |-> << >>, timer |-> {},
   picked |-> << >>, body |-> EMPTY, stopped |-> "", superseded |-> "",
   prior |-> 0, renamed |-> FALSE, exit |-> ""]

\* reply is the text the interval was created for (line 173); cleared
\* records which clearInterval call has cleared the interval:
\* "complete" (line 197), "stop" (line 238) or "replaced" (line 187)
NoReveal ==
  [armed |-> FALSE, typed |-> EMPTY, suffix |-> EMPTY, cursor |-> 0, ticks |-> 0,
   cleared |-> "", reply |-> EMPTY]

\* The fields of disp[d] other than pc, and the fields of reveal[d] of a
\* cleared interval, are history: no handler reads them once the
\* invocation has returned (resp. the interval is cleared).  They are kept
\* in the state that follows the return (the clearing) and dropped by the
\* next step, so that finished invocations do not multiply the states.
Forgotten == [NoDispatch EXCEPT !.pc = "done"]

\* The mutable state a handler works on, as one record, so that the steps of
\* a handler compose in program order.  The console starts empty in every
\* step: the variable holds what the latest step has written.
World ==
  [isLoading |-> isLoading, isTyping |-> isTyping, abortRef |-> abortRef,
   manualAbortRef |-> manualAbortRef, typingRef |-> typingRef, disp |-> disp,
   reveal |-> reveal, chats |-> chats, activeChat |-> activeChat,
   console |-> << >>]

Commit(w) ==
  /\ isLoading' = w.isLoading
  /\ isTyping' = w.isTyping
  /\ abortRef' = w.abortRef
  /\ manualAbortRef' = w.manualAbortRef
  /\ typingRef' = w.typingRef
  /\ disp' = [d \in Dispatches |-> IF disp[d].pc = "done" THEN Forgotten ELSE w.disp[d]]
  /\ reveal' = [d \in Dispatches |->
                  IF ~reveal[d].armed /\ ~w.reveal[d].armed THEN NoReveal ELSE w.reveal[d]]
  /\ chats' = w.chats
  /\ activeChat' = w.activeChat
  /\ console' = w.console
  /\ UNCHANGED <<settings, models, pending, modelError, call>>

NoCall == [fn |-> "", args |-> << >>, ret |-> << >>]

\* the state of the component and of the chat store after construction
Mounted ==
  /\ isLoading = FALSE
  /\ isTyping = FALSE
  /\ abortRef = Null
  /\ manualAbortRef = FALSE
  /\ typingRef = 0
  /\ disp = [d \in Dispatches |-> NoDispatch]
  /\ reveal = [d \in Dispatches |-> NoReveal]
  /\ chats = [title |-> <<"N", "e", "w", " ", "C", "h", "a", "t">>, messages |-> << >>]
  /\ activeChat = chats
  /\ console = << >>

\* the state after construction and after the model list has been loaded,
\* with the candidate list and the configured model of c
Constructed(c) ==
  /\ Mounted
  /\ settings = [provider |-> GROQ, model |-> c.model]
  /\ models = c.models
  /\ pending = << >>
  /\ modelError = NO_ERROR

Init ==
  /\ \E c \in Configs : Constructed(c)
  /\ call = NoCall


\* ----------------------------------------------------------- the chat store
\* Message ids are Date.now() strings in the source; here the id is the pair
\* (dispatch, kind), which is unique as the clock readings of distinct handler
\* runs are assumed to be.
Message(d, kind, role, content) ==
  [id |-> <<d, kind>>, role |-> role, content |-> content]

\* addMessage: both views append, the active chat through a functional update
addMessage(w, message) ==
  [w EXCEPT !.chats.messages = Append(@, message),
            !.activeChat.messages = Append(@, message)]

\* updateMessage: both views patch the content of the message with that id
updateMessage(w, messageId, content) ==
  LET patch(ms) ==
        [i \in 1..Len(ms) |->
           IF ms[i].id = messageId THEN [ms[i] EXCEPT !.content = content] ELSE ms[i]]
  IN  [w EXCEPT !.chats.messages = patch(@),
                !.activeChat.messages = patch(@)]

\* renameChat: the chat list is updated functionally, the active chat is
\* replaced by a copy of the activeChat value of the render the handler
\* belongs to (rendered), with the new title
renameChat(w, rendered, newTitle) ==
  [w EXCEPT !.chats.title = newTitle,
            !.activeChat = [rendered EXCEPT !.title = newTitle]]

\* text.substring(0, 50) + (text.length > 50 ? '...' : '')
TitleOf(text) ==
  slice(text, 0, TITLE_MAX) \o (IF Len(text) > TITLE_MAX THEN ELLIPSIS ELSE EMPTY)

\* --------------------------------------------- steps of handleSendMessage
\* mutant of Finally: the busy flag is not cleared
Finally_KeepsBusy(w, d, exit) ==
  [w EXCEPT !.abortRef = Null,
            !.manualAbortRef = FALSE,
            !.isTyping = IF w.typingRef = 0 THEN FALSE ELSE @,
            !.disp[d].pc = "done",
            !.disp[d].exit = exit]

\* mutant of Finally: the flag isTyping is cleared whatever typingRef holds
Finally_ClearsTyping(w, d, exit) ==
  [w EXCEPT !.isLoading = FALSE,
            !.abortRef = Null,
            !.manualAbortRef = FALSE,
            !.isTyping = FALSE,
            !.disp[d].pc = "done",
            !.disp[d].exit = exit]

\* finally (lines 219-226); exit records the path that led here
Finally(w, d, exit) ==
  [w EXCEPT !.isLoading = FALSE,
            !.abortRef = Null,
            !.manualAbortRef = FALSE,
            !.isTyping = IF w.typingRef = 0 THEN FALSE ELSE @,
            !.disp[d].pc = "done",
            !.disp[d].exit = exit]

\* mutant of Catch: every error returns silently
Catch_Silent(w, d, isAbortError, errText) == Finally(w, d, "aborted")

\* mutant of Catch: the text of the error is shown instead of the apology
Catch_RawError(w, d, isAbortError, errText) ==
  IF isAbortError
    THEN Finally(w, d, "aborted")
    ELSE Finally(addMessage([w EXCEPT !.console = <<[by |-> d, text |-> errText]>>],
                            Message(d, "error", "assistant", errText)),
                 d, "apology")

\* catch (lines 208-218): an AbortError returns silently, anything else is
\* logged and answered with the fixed apology
Catch(w, d, isAbortError, errText) ==
  IF isAbortError
    THEN Finally(w, d, "aborted")
    ELSE Finally(addMessage([w EXCEPT !.console = <<[by |-> d, text |-> errText]>>],
                            Message(d, "error", "assistant", APOLOGY)),
                 d, "apology")

\* mutant of Payload: the retry keeps the configured model
Payload_IgnoresOverride(dr, modelOverride) ==
  [thread_id |-> dr.chatId, message |-> dr.text, model |-> dr.settingsModel]

\* the payload of lines 125-132 (provider, system_prompt and use_web are
\* copied from the settings and are the same in every attempt)
Payload(dr, modelOverride) ==
  [thread_id |-> dr.chatId,
   message |-> dr.text,
   model |-> IF modelOverride # EMPTY THEN modelOverride ELSE dr.settingsModel]

\* sendChatRequest up to its await (lines 116-142): a new controller is
\* retained, the timeout timer is armed and the request is issued
sendChatRequest(w, d, modelOverride) ==
  [w EXCEPT !.abortRef = Controller(d, Len(w.disp[d].reqs) + 1),
            !.disp[d].pc = "chat",
            !.disp[d].timer = @ \cup {Len(w.disp[d].reqs) + 1},
            !.disp[d].reqs = Append(@, Payload(w.disp[d], modelOverride))]

\* mutant of clearInterval: the interval keeps running
clearInterval_Leaks(w, handle, why) ==
  [w EXCEPT !.reveal[handle].cleared = why]

\* mutant of clearInterval: starting a reveal does not clear the previous
\* interval
clearInterval_NotOnStart(w, handle, why) ==
  [w EXCEPT !.reveal[handle].armed = @ /\ why = "replaced",
            !.reveal[handle].cleared = why]

\* window.clearInterval(typingRef.current) (lines 187, 197, 238)
clearInterval(w, handle, why) ==
  [w EXCEPT !.reveal[handle].armed = FALSE,
            !.reveal[handle].cleared = why]

\* reply handling (lines 172-207)
ReplyHandling(w, d, data) ==
  LET reply == IF data.isString THEN data.message ELSE EMPTY
      split == splitForTyping(reply)
      w1 == addMessage(w, Message(d, "assistant", "assistant", EMPTY))
      w2 == IF w1.typingRef # 0
              THEN clearInterval(w1, w1.typingRef, "replaced")
              ELSE w1
      w3 == [w2 EXCEPT !.isTyping = TRUE,
                       !.typingRef = d,
                       !.reveal[d] = [armed |-> TRUE, typed |-> split.typed,
                                      suffix |-> split.suffix, cursor |-> 0,
                                      ticks |-> 0, cleared |-> "",
                                      reply |-> reply]]
  IN  IF reply # EMPTY
        THEN Finally(w3, d, "reply")
        ELSE Finally(w, d, "noReply")

NoData == [isString |-> FALSE, message |-> EMPTY]

\* How the await of an attempt ends:
\*   "data"       the response was ok and its body parsed
\*   "failed"     the response was not ok
\*   "error"      fetch or resp.json() rejected with something else than an abort
\*   "timedOut"   the timer callback aborted the signal
\*   "stop"       handleStop aborted the signal
\*   "superseded" a later handleSendMessage aborted the signal
Aborts == {"timedOut", "stop", "superseded"}

\* mutant of TimedOutFlag: every abort counts as a timeout
TimedOutFlag_AnyAbort(how) == how \in Aborts

\* the local flag timedOut (lines 118-121): set by the timer callback only
TimedOutFlag(how) == how = "timedOut"

\* What sendChatRequest returns or throws (lines 143-155)
AttemptResult(w, how) ==
  CASE how = "data" -> "data"
    [] how \in {"failed", "error"} -> "throw"
    [] how \in Aborts ->
         IF TimedOutFlag(how) THEN "timedOut"
         ELSE IF w.manualAbortRef THEN "cancelled"
         ELSE "throwAbort"

\* mutant of clearTimeout: the timer of the attempt stays armed
clearTimeout_Leaks(w, d, a) == w

\* window.clearTimeout(timeoutId) (line 157), timeoutId being the timer of
\* attempt a of dispatch d
clearTimeout(w, d, a) == [w EXCEPT !.disp[d].timer = @ \ {a}]

\* The continuation of an attempt and of handleSendMessage after it
\* (lines 143-226).  The finally of sendChatRequest clears the timeout timer
\* whatever the result.
AfterAttempt(w, d, how, data, errText) ==
  LET first == Len(w.disp[d].reqs) = 1
      result == AttemptResult(w, how)
      dr == w.disp[d]
      fastModel == dr.fastModel
      w0 == clearTimeout([w EXCEPT !.disp[d].ends = Append(@, how)], d,
                         Len(w.disp[d].reqs))
      \* picked records what the selector returned, when it is consulted
      w1 == IF result = "timedOut" /\ first
              THEN [w0 EXCEPT !.disp[d].picked = <<fastModel>>]
              ELSE w0
  IN  CASE result = "throw" -> Catch(w1, d, FALSE, errText)
        [] result = "throwAbort" -> Catch(w1, d, TRUE, EMPTY)
        [] result = "cancelled" ->
             IF first THEN Finally(w1, d, "cancelled")
                      ELSE ReplyHandling(w1, d, NoData)
        [] result = "timedOut" ->
             IF first
               THEN IF fastModel # EMPTY /\ fastModel # dr.settingsModel
                      THEN sendChatRequest(w1, d, fastModel)
                      ELSE Catch(w1, d, FALSE, TIMED_OUT_TEXT)
               ELSE ReplyHandling(w1, d, NoData)
        [] result = "data" -> ReplyHandling(w1, d, data)

\* the dispatch whose fetch awaits on the signal of controller c, or 0
Awaiter(w, c) ==
  IF c # Null /\ w.disp[c.d].pc = "chat" /\ Len(w.disp[c.d].reqs) = c.a
    THEN c.d ELSE 0


InFlight(d) == disp[d].pc \in {"upload", "chat"}

\* ------------------------------------------------------------------ actions
\* handleSendMessage(text, files) up to its first await (lines 69-142),
\* followed by the continuation of the request it has aborted, if any.
\* superseded records, for each dispatch that is waiting for the network,
\* the phase in which the new dispatch found it; prior is the number of
\* messages of the chat (in the chat list) when the handler starts, renamed
\* whether the handler has called renameChat.  models and settings.model are
\* constants of the closure of the invocation, so what pickFastModel(models,
\* settings.model) (line 163) returns after a timeout is fixed when the
\* invocation starts: fastModel holds it.
HandleSendMessage(text, files) ==
  \E d \in Dispatches :
    /\ disp[d].pc = "none"
    /\ \A e \in 1..(d - 1) : disp[e].pc # "none"
    /\ LET rendered == activeChat
           w1 == addMessage(World, Message(d, "user", "user", text))
           w2 == IF Len(rendered.messages) = 0
                   THEN renameChat(w1, rendered, TitleOf(text))
                   ELSE w1
           aborted == Awaiter(w2, w2.abortRef)
           w3 == [w2 EXCEPT !.isLoading = TRUE,
                            !.manualAbortRef = FALSE,
                            !.disp = [e \in Dispatches |->
                                        IF e = d
                                          THEN [NoDispatch EXCEPT
                                                  !.text = text, !.files = files,
                                                  !.settingsModel = settings.model,
                                                  !.models = models,
                                                  !.fastModel =
                                                    pickFastModel(models, settings.model),
                                                  !.prior = Len(chats.messages),
                                                  !.renamed = Len(rendered.messages) = 0]
                                        ELSE IF InFlight(e) /\ disp[e].superseded = ""
                                          THEN [disp[e] EXCEPT !.superseded = disp[e].pc]
                                        ELSE disp[e]]]
           w4 == IF files
                   THEN [w3 EXCEPT !.disp[d].pc = "upload", !.disp[d].upload = "sent"]
                   ELSE sendChatRequest(w3, d, EMPTY)
           w5 == IF aborted # 0
                   THEN AfterAttempt(w4, aborted, "superseded", NoData, EMPTY)
                   ELSE w4
       IN  Commit(w5)

\* handleStop (lines 230-242), followed by the continuation of the request
\* it has aborted, if any.  stopped records, for each dispatch that is
\* waiting for the network, the phase in which the stop found it.
HandleStop ==
  /\ typingRef \in 0..MaxDispatch   \* no early return: the handler always runs
  /\ LET aborted == Awaiter(World, abortRef)
         w0 == [World EXCEPT !.disp =
                  [d \in Dispatches |->
                     IF InFlight(d) /\ disp[d].stopped = ""
                       THEN [disp[d] EXCEPT !.stopped = disp[d].pc]
                       ELSE disp[d]]]
         w1 == IF abortRef # Null
                 THEN [w0 EXCEPT !.manualAbortRef = TRUE,
                                 !.abortRef = Null,
                                 !.isLoading = FALSE]
                 ELSE w0
         w2 == IF typingRef # 0
                 THEN [clearInterval(w1, typingRef, "stop") EXCEPT !.typingRef = 0]
                 ELSE w1
         w3 == [w2 EXCEPT !.isTyping = FALSE]
         w4 == IF aborted # 0
                 THEN AfterAttempt(w3, aborted, "stop", NoData, EMPTY)
                 ELSE w3
     IN  Commit(w4)

\* the upload response is ok (lines 104-113), the chat request starts
UploadOk(d) ==
  /\ disp[d].pc = "upload"
  /\ Commit(sendChatRequest([World EXCEPT !.disp[d].upload = "ok"], d, EMPTY))

\* mutant of UploadFailed: the status of the upload response is not checked
UploadFailed_Proceeds(d, body) ==
  /\ disp[d].pc = "upload"
  /\ Commit(sendChatRequest([World EXCEPT !.disp[d].upload = "failed", !.disp[d].body = body],
                            d, EMPTY))

\* the upload response is not ok (lines 109-112)
UploadFailed(d, body) ==
  /\ disp[d].pc = "upload"
  /\ Commit(Catch([World EXCEPT !.disp[d].upload = "failed", !.disp[d].body = body],
                  d, FALSE, IF body # EMPTY THEN body ELSE UPLOAD_FAILED))

\* the upload fetch rejects (network failure)
UploadError(d) ==
  /\ disp[d].pc = "upload"
  /\ Commit(Catch([World EXCEPT !.disp[d].upload = "error"], d, FALSE, NETWORK_ERROR))

\* the chat response is ok and its JSON body is data (lines 143-149)
ChatOk(d, data) ==
  /\ disp[d].pc = "chat"
  /\ Commit(AfterAttempt(World, d, "data", data, EMPTY))

\* the chat response is not ok (lines 143-146)
ChatFailed(d, body) ==
  /\ disp[d].pc = "chat"
  /\ Commit(AfterAttempt([World EXCEPT !.disp[d].body = body], d, "failed", NoData,
                         IF body # EMPTY THEN body ELSE CHAT_FAILED))

\* the chat fetch or resp.json() rejects with something else than an abort
ChatError(d) ==
  /\ disp[d].pc = "chat"
  /\ Commit(AfterAttempt(World, d, "error", NoData, NETWORK_ERROR))

\* a timeout timer of the dispatch fires (lines 119-122): timedOut = true,
\* controller.abort(), and the aborted fetch continues at line 150
Timeout(d) ==
  \E a \in disp[d].timer :
    IF disp[d].pc = "chat" /\ Len(disp[d].reqs) = a
      THEN Commit(AfterAttempt(World, d, "timedOut", NoData, EMPTY))
      \* the fetch of attempt a has settled: abort() has no effect
      ELSE Commit([World EXCEPT !.disp[d].timer = @ \ {a}])

\* mutant of NextCursor: the cursor is not clamped to the length of typed
NextCursor_Unclamped(typed, cursor) == cursor + TYPE_CHUNK_SIZE

\* line 192: cursor = Math.min(typed.length, cursor + TYPE_CHUNK_SIZE)
NextCursor(typed, cursor) == Min(Len(typed), cursor + TYPE_CHUNK_SIZE)

\* mutant of Finished: the first run of the callback ends the reveal
Finished_Early(typed, cursor, handle) == handle # 0

\* line 196: cursor >= typed.length && typingRef.current
Finished(typed, cursor, handle) == cursor >= Len(typed) /\ handle # 0

\* one run of the interval callback of dispatch d (lines 191-206)
RevealTick(d) ==
  /\ reveal[d].armed
  /\ LET r == reveal[d]
         cursor == NextCursor(r.typed, r.cursor)
         assistantId == <<d, "assistant">>
         w1 == updateMessage([World EXCEPT !.reveal[d].cursor = cursor,
                                           !.reveal[d].ticks = @ + 1],
                             assistantId, slice(r.typed, 0, cursor))
         w2 == [clearInterval(w1, w1.typingRef, "complete") EXCEPT !.typingRef = 0]
         w3 == IF r.suffix # EMPTY
                 THEN updateMessage(w2, assistantId, r.typed \o r.suffix)
                 ELSE w2
         w4 == [w3 EXCEPT !.isTyping = FALSE]
     IN  IF Finished(r.typed, cursor, typingRef)
           THEN Commit(w4)
           ELSE Commit(w1)

Send == \E text \in Texts, files \in BOOLEAN : HandleSendMessage(text, files)
Stop == HandleStop
UploadResponse ==
  \E d \in Dispatches :
     \/ UploadOk(d)
     \/ \E body \in ErrorBodies : UploadFailed(d, body)
     \/ UploadError(d)
ChatResponse ==
  \E d \in Dispatches :
     \/ \E data \in Datas : ChatOk(d, data)
     \/ \E body \in ErrorBodies : ChatFailed(d, body)
     \/ ChatError(d)
TimerFires == \E d \in Dispatches : Timeout(d)
Tick == \E d \in Dispatches : RevealTick(d)

\* the controller: dispatch and stop may be requested at any time
Next ==
  \/ Send
  \/ Stop
  \/ UploadResponse
  \/ ChatResponse
  \/ TimerFires
  \/ Tick

Spec == Init /\ [][Next]_vars

\* the controller behind MessageInput: handleSend returns while isLoading
\* (lines 25 and 45), the stop button exists only while isLoading (line 114)
SendUI == ~isLoading /\ Send
StopUI == isLoading /\ Stop

NextUI ==
  \/ SendUI
  \/ StopUI
  \/ UploadResponse
  \/ ChatResponse
  \/ TimerFires
  \/ Tick

SpecUI == Init /\ [][NextUI]_vars

\* The same controller with the browser's timers: an armed timeout
\* (window.setTimeout, line 119) fires unless it is cleared, and an armed
\* interval (window.setInterval, line 191) keeps ticking until it is
\* cleared.  Nothing is assumed about the backend or the user.
Fairness ==
  \A d \in Dispatches : WF_vars(Timeout(d)) /\ WF_vars(RevealTick(d))

SpecLive == Init /\ [][NextUI]_vars /\ Fairness

\* the controller in an environment that attaches no file and answers every
\* chat request in time with a reply: the runs in which reveals happen,
\* with typed prefixes on both sides of the chunk boundaries
SendText == \E text \in Texts : HandleSendMessage(text, FALSE)
ChatReply == \E d \in Dispatches : \E data \in TypingDatas : ChatOk(d, data)

NextTyping ==
  \/ SendText
  \/ Stop
  \/ ChatReply
  \/ Tick

SpecTyping == Init /\ [][NextTyping]_vars


\* splitForTyping alone: a call with a text of SplitTexts, and its return
InitSplit ==
  /\ Constructed([models |-> << >>, model |-> EMPTY])
  /\ \E text \in SplitTexts :
       call = [fn |-> "splitForTyping", args |-> <<text>>, ret |-> << >>]

ReturnSplit ==
  /\ call.fn = "splitForTyping"
  /\ call.ret = << >>
  /\ call' = [call EXCEPT !.ret = <<splitForTyping(call.args[1])>>]
  /\ UNCHANGED <<isLoading, isTyping, abortRef, manualAbortRef, typingRef, disp,
                 reveal, chats, activeChat, settings, models, pending,
                 modelError, console>>

SpecSplit == InitSplit /\ [][ReturnSplit]_vars

\* pickFastModel alone: the call of line 164 with a candidate list of
\* SelectorLists and a configured model of SelectorCurrents, and its return
InitSelector ==
  /\ \E list \in SelectorLists, current \in SelectorCurrents :
       Constructed([models |-> list, model |-> current])
  /\ call = [fn |-> "pickFastModel", args |-> <<models, settings.model>>, ret |-> << >>]

ReturnSelector ==
  /\ call.fn = "pickFastModel"
  /\ call.ret = << >>
  /\ call' = [call EXCEPT !.ret = <<pickFastModel(call.args[1], call.args[2])>>]
  /\ UNCHANGED <<isLoading, isTyping, abortRef, manualAbortRef, typingRef, disp,
                 reveal, chats, activeChat, settings, models, pending,
                 modelError, console>>

SpecSelector == InitSelector /\ [][ReturnSelector]_vars

\* ------------------------------------------------------ the settings provider
\* Scores are JavaScript numbers with a fractional part ("3.1"): they are
\* kept in units of 1 / SCORE_UNIT, exact for fractions of up to three digits
SCORE_UNIT == 1000

DigitVal ==
  [c \in {"0", "1", "2", "3", "4", "5", "6", "7", "8", "9"} |->
     CASE c = "0" -> 0 [] c = "1" -> 1 [] c = "2" -> 2 [] c = "3" -> 3
       [] c = "4" -> 4 [] c = "5" -> 5 [] c = "6" -> 6 [] c = "7" -> 7
       [] c = "8" -> 8 [] c = "9" -> 9]

IsDigit(s, i) == i >= 1 /\ i <= Len(s) /\ s[i] \in DOMAIN DigitVal

\* the index after the longest run of digits that starts at i (the \d+)
RECURSIVE DigitsEnd(_, _)
DigitsEnd(s, i) == IF IsDigit(s, i) THEN DigitsEnd(s, i + 1) ELSE i

\* the value of the digits s[a .. b-1]
RECURSIVE DigitsValue(_, _, _)
DigitsValue(s, a, b) ==
  IF a >= b THEN 0 ELSE DigitsValue(s, a, b - 1) * 10 + DigitVal[s[b - 1]]

RECURSIVE Pow10(_)
Pow10(n) == IF n = 0 THEN 1 ELSE 10 * Pow10(n - 1)

\* lower.match(/\d+(?:\.\d+)?/g) reduced with Number (lines 125-128): the sum
\* of the tokens found from index i on, scanning left to right
RECURSIVE NumberSum(_, _)
NumberSum(s, i) ==
  IF i > Len(s) THEN 0
  ELSE IF ~IsDigit(s, i) THEN NumberSum(s, i + 1)
  ELSE LET e1 == DigitsEnd(s, i)
           fraction == e1 <= Len(s) /\ s[e1] = "." /\ IsDigit(s, e1 + 1)
           e2 == IF fraction THEN DigitsEnd(s, e1 + 1) ELSE e1
           whole == DigitsValue(s, i, e1) * SCORE_UNIT
           part == IF fraction
                     THEN (DigitsValue(s, e1 + 1, e2) * SCORE_UNIT) \div Pow10(e2 - e1 - 1)
                     ELSE 0
       IN  whole + part + NumberSum(s, e2)

\* scoreModel (lines 113-130)
scoreModel(name) ==
  LET lower == toLowerCase(name)
      s1 == IF \/ includes(lower, <<"m", "i", "n", "i">>)
               \/ includes(lower, <<"l", "i", "t", "e">>)
               \/ includes(lower, <<"s", "m", "a", "l", "l">>)
              THEN 0 - 1000 * SCORE_UNIT ELSE 0
      s2 == IF \/ includes(lower, <<"p", "r", "o">>)
               \/ includes(lower, <<"m", "a", "x">>)
               \/ includes(lower, <<"u", "l", "t", "r", "a">>)
              THEN s1 + 200 * SCORE_UNIT ELSE s1
      s3 == IF \/ includes(lower, <<"l", "a", "r", "g", "e">>)
               \/ includes(lower, <<"x", "l">>)
              THEN s2 + 150 * SCORE_UNIT ELSE s2
  IN  s3 + NumberSum(lower, 1)

\* the collation rank of a character of a model name: punctuation before
\* digits before letters, letters without regard to case
CharRank(c) ==
  LET order == <<"-", ".", "0", "1", "2", "3", "4", "5", "6", "7", "8", "9",
                 "a", "b", "c", "d", "e", "f", "g", "h", "i", "j", "k", "l",
                 "m", "n", "o", "p", "q", "r", "s", "t", "u", "v", "w", "x",
                 "y", "z">>
  IN  CHOOSE k \in 1..Len(order) : order[k] = c

\* a.localeCompare(b) for model names: negative, zero or positive
RECURSIVE localeCompare(_, _)
localeCompare(a, b) ==
  LET x == toLowerCase(a)
      y == toLowerCase(b)
  IN  IF x = << >> /\ y = << >> THEN 0
      ELSE IF x = << >> THEN -1
      ELSE IF y = << >> THEN 1
      ELSE IF x[1] # y[1] THEN CharRank(x[1]) - CharRank(y[1])
      ELSE localeCompare(Tail(x), Tail(y))

\* the comparator of lines 139-143
CompareBest(a, b) ==
  LET diff == scoreModel(b) - scoreModel(a)
  IN  IF diff # 0 THEN diff ELSE localeCompare(a, b)

\* [...list].sort(comparator), a stable sort
RECURSIVE InsertBest(_, _)
InsertBest(x, sorted) ==
  IF sorted = << >> THEN <<x>>
  ELSE IF CompareBest(sorted[1], x) > 0 THEN <<x>> \o sorted
  ELSE <<sorted[1]>> \o InsertBest(x, Tail(sorted))

RECURSIVE SortBest(_)
SortBest(list) ==
  IF list = << >> THEN << >>
  ELSE InsertBest(list[Len(list)], SortBest(SubSeq(list, 1, Len(list) - 1)))

\* pickBestModel (lines 132-144)
pickBestModel(list) ==
  LET preferred(name) ==
        /\ includes(toLowerCase(name), <<"l", "l", "a", "m", "a", "-", "3">>)
        /\ includes(toLowerCase(name), <<"7", "0", "b">>)
      found == {i \in 1..Len(list) : preferred(list[i])}
  IN  IF Len(list) = 0 THEN EMPTY
      ELSE IF found # {}
        THEN list[CHOOSE i \in found : \A j \in found : i <= j]
        ELSE SortBest(list)[1]

\* Array.from(new Set(modelListRaw.filter(Boolean))) (line 158): the
\* non-empty entries, each at its first occurrence
RECURSIVE Distinct(_)
Distinct(raw) ==
  IF raw = << >> THEN << >>
  ELSE LET init == Distinct(SubSeq(raw, 1, Len(raw) - 1))
           x == raw[Len(raw)]
       IN  IF x = EMPTY \/ \E i \in 1..Len(init) : init[i] = x
             THEN init
             ELSE Append(init, x)

\* refreshModels up to its await (lines 147-152)
StartRefresh(target) ==
  /\ modelError' = NO_ERROR
  /\ models' = << >>
  /\ pending' = Append(pending, target)

Without(q, i) == SubSeq(q, 1, i - 1) \o SubSeq(q, i + 1, Len(q))

Component ==
  <<isLoading, isTyping, abortRef, manualAbortRef, typingRef, disp, reveal,
    chats, activeChat, console, call>>

\* the provider select of the settings dialog: updateSettings({provider,
\* model: ''}), then the effect of lines 173-176 calls refreshModels
SelectProvider(p) ==
  /\ p # settings.provider
  /\ Len(pending) < MaxPending
  /\ settings' = [settings EXCEPT !.provider = p, !.model = EMPTY]
  /\ StartRefresh(p)
  /\ UNCHANGED Component

\* the refresh button of the settings dialog: refreshModels()
RefreshClicked ==
  /\ Len(pending) < MaxPending
  /\ StartRefresh(settings.provider)
  /\ UNCHANGED <<settings, Component>>

\* the model select of the settings dialog: updateSettings({model})
SelectModel(m) ==
  /\ \E i \in 1..Len(models) : models[i] = m
  /\ m # settings.model
  /\ settings' = [settings EXCEPT !.model = m]
  /\ UNCHANGED <<models, pending, modelError, Component>>

\* a /api/models request is answered with the list of its provider: the
\* rest of refreshModels (lines 153-167)
ModelsLoaded(i) ==
  /\ i \in 1..Len(pending)
  /\ LET modelList == Distinct(ModelsOf[pending[i]])
         best == pickBestModel(modelList)
     IN  /\ models' = modelList
         /\ settings' =
              IF Len(modelList) = 0 THEN settings
              ELSE IF settings.model # EMPTY /\ (\E k \in 1..Len(modelList) :
                                                   modelList[k] = settings.model)
                THEN settings
              ELSE [settings EXCEPT !.model =
                      IF best # EMPTY THEN best
                      ELSE IF settings.model # EMPTY THEN settings.model
                      ELSE modelList[1]]
  /\ pending' = Without(pending, i)
  /\ UNCHANGED <<modelError, Component>>

\* a /api/models request fails (non-success status, error in the body, or
\* a rejected fetch): the catch of lines 168-170
ModelsFailed(i) ==
  /\ i \in 1..Len(pending)
  /\ modelError' = LOAD_FAILED
  /\ pending' = Without(pending, i)
  /\ UNCHANGED <<settings, models, Component>>

\* the names the model select can offer
SettingsNames ==
  UNION { { ModelsOf[p][i] : i \in 1..Len(ModelsOf[p]) } : p \in Providers } \ {EMPTY}

ChangeProvider == \E p \in Providers : SelectProvider(p)
ChangeModel == \E m \in SettingsNames : SelectModel(m)
ModelsResponse ==
  \E i \in 1..MaxPending : ModelsLoaded(i) \/ ModelsFailed(i)

\* the provider after mount: DEFAULT_SETTINGS (lines 39-44), no models, and
\* the request of the first run of the effect of lines 173-176 not answered
InitSettings ==
  /\ Mounted
  /\ settings = [provider |-> GROQ, model |-> EMPTY]
  /\ models = << >>
  /\ pending = <<GROQ>>
  /\ modelError = NO_ERROR
  /\ call = NoCall

NextSettings ==
  \/ ChangeProvider
  \/ RefreshClicked
  \/ ChangeModel
  \/ ModelsResponse

SpecSettings == InitSettings /\ [][NextSettings]_vars

\* ------------------------------------------------------------- observations
Last(q) == q[Len(q)]

\* the assistant messages inserted by dispatch d, in a view of the store
AssistantBy(view, d) ==
  SelectSeq(view.messages, LAMBDA m : m.role = "assistant" /\ m.id[1] = d)

ApologyOf(d) == Message(d, "error", "assistant", APOLOGY)

\* the selector has been consulted and has returned a model to retry with
\* (lines 164-165)
HasFallback(dr) ==
  /\ Len(dr.picked) = 1
  /\ dr.picked[1] # EMPTY
  /\ dr.picked[1] # dr.settingsModel

Running == {d \in Dispatches : InFlight(d)}

\* the message that reply handling inserts for dispatch d (line 178)
HasReplyMessage(view, d) ==
  \E i \in 1..Len(view.messages) : view.messages[i].id = <<d, "assistant">>

\* its content
ReplyContent(view, d) ==
  LET i == CHOOSE j \in 1..Len(view.messages) : view.messages[j].id = <<d, "assistant">>
  IN  view.messages[i].content

Ceil(n, k) == (n + k - 1) \div k

Max(a, b) == IF a > b THEN a ELSE b

\* ------------------------------------------------------------------- claims

\* C1: a dispatch issues a second chat request if and only if its first one
\* was aborted by the timeout and the selector returned a non-empty model
\* different from the configured one; the retry carries the thread id and
\* the text of the dispatch with the fallback model, and there is never a
\* third request.
C1_RetryIffTimeoutWithFallback ==
  \A d \in Dispatches :
    LET dr == disp[d] IN
      /\ Len(dr.reqs) <= 2
      /\ (Len(dr.reqs) = 2) <=>
           (Len(dr.ends) >= 1 /\ dr.ends[1] = "timedOut" /\ HasFallback(dr))
      /\ (Len(dr.picked) = 1) <=> (Len(dr.ends) >= 1 /\ dr.ends[1] = "timedOut")
      /\ Len(dr.reqs) >= 1 =>
           dr.reqs[1] = [thread_id |-> dr.chatId, message |-> dr.text,
                         model |-> dr.settingsModel]
      /\ Len(dr.reqs) = 2 =>
           dr.reqs[2] = [thread_id |-> dr.chatId, message |-> dr.text,
                         model |-> dr.picked[1]]

\* a retry with the model "a-mini" is in flight after a timeout of "b-large"
C1_Witness ==
  \E d \in Dispatches :
    /\ disp[d].pc = "chat"
    /\ disp[d].ends = <<"timedOut">>
    /\ Len(disp[d].reqs) = 2
    /\ disp[d].reqs[1].model = M_B_LARGE
    /\ disp[d].reqs[2].model = M_A_MINI

\* C2 (as claimed): when the retry times out as well, the dispatch ends with
\* an apology message in the store.
C2_RetryTimeoutSurfaced ==
  \A d \in Dispatches :
    (disp[d].pc = "done" /\ disp[d].ends = <<"timedOut", "timedOut">>)
      => /\ disp[d].exit = "apology"
         /\ AssistantBy(chats, d) = <<ApologyOf(d)>>

\* C3: a timeout of the first request without a distinct fallback model
\* issues no retry and inserts exactly one assistant message, the apology.
C3_TimeoutWithoutFallback ==
  \A d \in Dispatches :
    LET dr == disp[d] IN
      (Len(dr.ends) >= 1 /\ dr.ends[1] = "timedOut" /\ ~HasFallback(dr))
        => /\ dr.pc = "done"
           /\ Len(dr.reqs) = 1
           /\ dr.exit = "apology"
           /\ AssistantBy(chats, d) = <<ApologyOf(d)>>
           /\ AssistantBy(activeChat, d) = <<ApologyOf(d)>>
           /\ console = <<[by |-> d, text |-> TIMED_OUT_TEXT]>>

\* both ways of having no fallback: the selector returns the configured
\* model, or the candidate list is empty
C3_Witness ==
  \E d \in Dispatches :
    /\ disp[d].ends = <<"timedOut">>
    /\ disp[d].exit = "apology"
    /\ \/ disp[d].models = << >> /\ disp[d].picked = <<EMPTY>>
       \/ disp[d].models # << >> /\ disp[d].picked = <<disp[d].settingsModel>>

\* C4: a request aborted by handleStop ends the dispatch without a retry
\* and without any assistant message (no apology, no reply).
C4_StopCancelsSilently ==
  \A d \in Dispatches :
    LET dr == disp[d] IN
      (Len(dr.ends) >= 1 /\ Last(dr.ends) = "stop")
        => /\ dr.pc = "done"
           /\ dr.exit \in {"cancelled", "noReply"}
           /\ Len(dr.reqs) = Len(dr.ends)
           /\ AssistantBy(chats, d) = << >>
           /\ AssistantBy(activeChat, d) = << >>
           /\ \A i \in 1..Len(console) : console[i].by # d

\* a stop has aborted a retry
C4_Witness ==
  \E d \in Dispatches : disp[d].ends = <<"timedOut", "stop">> /\ disp[d].pc = "done"

\* C5 (as claimed): a dispatch that a stop found waiting for the network
\* (upload or chat request) is over and has inserted no assistant message.
C5_StopCancelsAnyNetworkOperation ==
  \A d \in Dispatches :
    disp[d].stopped # ""
      => /\ disp[d].pc = "done"
         /\ AssistantBy(chats, d) = << >>

\* C6: a non-success upload response ends the dispatch as failed, and no
\* chat request is made.
C6_UploadFailureSkipsChat ==
  \A d \in Dispatches :
    disp[d].upload = "failed"
      => /\ disp[d].pc = "done"
         /\ disp[d].exit = "apology"
         /\ disp[d].reqs = << >>
         /\ disp[d].ends = << >>

C6_Witness ==
  \E d \in Dispatches :
    disp[d].upload = "failed" /\ disp[d].pc = "done" /\ disp[d].files


\* a non-success response with a non-empty body has ended dispatch d
FailedWithBody(d) ==
  /\ disp[d].pc = "done"
  /\ disp[d].body # EMPTY
  /\ \/ disp[d].upload = "failed"
     \/ Len(disp[d].ends) >= 1 /\ Last(disp[d].ends) = "failed"

\* a non-success response (with or without a body) has ended dispatch d
FailedStatus(d) ==
  /\ disp[d].pc = "done"
  /\ \/ disp[d].upload = "failed"
     \/ Len(disp[d].ends) >= 1 /\ Last(disp[d].ends) = "failed"

\* C7 (as claimed): after a non-success upload or chat response, the content
\* of the assistant message inserted is the error body of the response.
C7_ErrorBodyShown ==
  \A d \in Dispatches :
    FailedWithBody(d)
      => \E i \in 1..Len(chats.messages) :
           /\ chats.messages[i].role = "assistant"
           /\ chats.messages[i].id[1] = d
           /\ chats.messages[i].content = disp[d].body

\* C7 (amended): after a non-success upload or chat response, the error
\* thrown and logged carries the error body of the response (the default
\* text of the request when the body is empty), and the one assistant
\* message inserted has the fixed apology text.
C7_ErrorBodyLogged ==
  \A d \in Dispatches :
    FailedStatus(d)
      => /\ console =
              <<[by |-> d,
                 text |-> IF disp[d].body # EMPTY THEN disp[d].body
                          ELSE IF disp[d].upload = "failed" THEN UPLOAD_FAILED
                          ELSE CHAT_FAILED]>>
         /\ AssistantBy(chats, d) = <<ApologyOf(d)>>
         /\ AssistantBy(activeChat, d) = <<ApologyOf(d)>>

\* a chat request has failed with the body "quota"
C7_Witness ==
  \E d \in Dispatches :
    /\ FailedWithBody(d)
    /\ Len(disp[d].ends) >= 1
    /\ Last(disp[d].ends) = "failed"
    /\ console = <<[by |-> d, text |-> <<"q", "u", "o", "t", "a">>]>>

\* dispatch d has ended on a failure that is not a cancellation
EndedInFailure(d) ==
  /\ disp[d].pc = "done"
  /\ \/ disp[d].upload \in {"failed", "error"}
     \/ Len(disp[d].ends) >= 1 /\ Last(disp[d].ends) \in {"failed", "error", "timedOut"}

\* C8 (as claimed): every failure other than a cancellation ends the
\* dispatch with exactly one assistant message, the fixed apology.
C8_EveryFailureApologizes ==
  \A d \in Dispatches :
    EndedInFailure(d)
      => /\ disp[d].exit = "apology"
         /\ AssistantBy(chats, d) = <<ApologyOf(d)>>

\* C9: after every exit of a dispatch the busy flag is false and the
\* retained abort handle is empty, and so they are whenever no dispatch is
\* running.
C9_IdleAfterExit ==
  /\ \A d \in Dispatches :
       disp[d].exit # "" => (isLoading = FALSE /\ abortRef = Null)
  /\ Running = {} => (isLoading = FALSE /\ abortRef = Null)

\* a dispatch has just left through the catch block after a chat request
C9_Witness ==
  \E d \in Dispatches :
    /\ disp[d].exit = "apology"
    /\ Len(disp[d].reqs) >= 1
    /\ Running = {}
    /\ isLoading = FALSE

\* C10 (as claimed): never two dispatches with a pending network operation
\* or an armed timeout timer.
C10_AtMostOneInFlight ==
  /\ Cardinality(Running) <= 1
  /\ Cardinality({d \in Dispatches : disp[d].timer # {}}) <= 1

\* C11 (as claimed): a dispatch that was waiting for the network (upload or
\* chat request) when a later dispatch was issued inserts no message
\* afterwards: the store holds no assistant message of it, and nothing has
\* been logged for it.
C11_SupersededMutatesNothing ==
  \A d \in Dispatches :
    disp[d].superseded # ""
      => /\ AssistantBy(chats, d) = << >>
         /\ AssistantBy(activeChat, d) = << >>

\* C12 (as claimed): in the state that follows the continuation of a
\* superseded dispatch, the busy flag is true and the abort handle is the
\* controller of the request of the new dispatch.
C12_SupersededLeavesControllerAlone ==
  \A d, e \in Dispatches :
    ( /\ e < d
      /\ disp[e].pc = "done"
      /\ Len(disp[e].ends) >= 1
      /\ Last(disp[e].ends) = "superseded"
      /\ disp[d].pc = "chat" )
      => /\ isLoading = TRUE
         /\ abortRef = Controller(d, Len(disp[d].reqs))
         /\ manualAbortRef = FALSE

\* C13 (as claimed): a reveal of a typed prefix of length L >= 0 that ends
\* by itself has run exactly ceil(L/10) ticks, its last prefix update wrote
\* the whole prefix, and the content is the prefix followed by the suffix.
C13_CompletesAfterCeilTicks ==
  \A d \in Dispatches :
    LET r == reveal[d] IN
      r.cleared = "complete"
        => /\ r.ticks = Ceil(Len(r.typed), TYPE_CHUNK_SIZE)
           /\ slice(r.typed, 0, r.cursor) = r.typed
           /\ ReplyContent(chats, d) = r.typed \o r.suffix

\* C13 (amended): a reveal of a typed prefix of length L ends by itself
\* after exactly max(1, ceil(L/10)) ticks (one tick when L = 0) and not
\* before; its last prefix update wrote the whole prefix, and the content
\* is the prefix followed by the suffix, in both views of the store.
C13_CompletesAfterAtLeastOneTick ==
  \A d \in Dispatches :
    LET r == reveal[d]
        n == Max(1, Ceil(Len(r.typed), TYPE_CHUNK_SIZE))
    IN  /\ r.armed => r.ticks < n
        /\ r.cleared = "complete"
             => /\ ~r.armed
                /\ r.ticks = n
                /\ r.cursor = Len(r.typed)
                /\ slice(r.typed, 0, r.cursor) = r.typed
                /\ ReplyContent(chats, d) = r.typed \o r.suffix
                /\ ReplyContent(activeChat, d) = r.typed \o r.suffix

\* a reveal of 20 characters and a code block has ended by itself
C13_Witness ==
  \E d \in Dispatches :
    /\ reveal[d].cleared = "complete"
    /\ Len(reveal[d].typed) = 20
    /\ reveal[d].ticks = 2
    /\ reveal[d].suffix # EMPTY

\* the content of the reply message of d is what the ticks run so far have
\* written, no tick of the reveal of d can fire, and nobody is revealing
StoppedAfterTicks(d) ==
  LET r == reveal[d]
      shown == slice(r.typed, 0, Min(Len(r.typed), TYPE_CHUNK_SIZE * r.ticks))
  IN  /\ ~r.armed
      /\ typingRef = 0
      /\ isTyping = FALSE
      /\ ReplyContent(chats, d) = shown
      /\ ReplyContent(activeChat, d) = shown

\* no step changes the reply message of a dispatch whose interval is not
\* armed, or arms that interval again
FrozenOnceCleared ==
  \A d \in Dispatches :
    (HasReplyMessage(chats, d) /\ ~reveal[d].armed)
      => /\ ~reveal'[d].armed
         /\ HasReplyMessage(chats', d)
         /\ ReplyContent(chats', d) = ReplyContent(chats, d)
         /\ ReplyContent(activeChat', d) = ReplyContent(activeChat, d)

\* C14: when handleStop clears a reveal that has run K ticks, the content of
\* the message is typed[0 : min(L, 10K)] (without the suffix), the interval
\* is cleared, and from then on no step changes the content or arms the
\* interval again.
C14_StopFreezesPartialPrefix ==
  /\ [](\A d \in Dispatches : reveal[d].cleared = "stop" => StoppedAfterTicks(d))
  /\ [][FrozenOnceCleared]_vars

\* a stop after one tick of a reveal of 20 characters and a code block
C14_Witness ==
  \E d \in Dispatches :
    /\ reveal[d].cleared = "stop"
    /\ reveal[d].ticks = 1
    /\ Len(reveal[d].typed) = 20
    /\ reveal[d].suffix # EMPTY
    /\ Len(ReplyContent(chats, d)) = TYPE_CHUNK_SIZE

\* C15: between the steps, isTyping is true if and only if a reveal interval
\* is armed; that interval is the one typingRef holds, so the flag falls
\* exactly when the interval is cleared (by its last tick or by handleStop),
\* and no exit of a dispatch clears the flag while an interval is armed.
C15_TypingIffTimerArmed ==
  /\ isTyping <=> (\E d \in Dispatches : reveal[d].armed)
  /\ \A d \in Dispatches : reveal[d].armed <=> typingRef = d
  /\ \A d \in Dispatches :
       reveal[d].cleared \in {"complete", "stop"} => (isTyping = FALSE /\ typingRef = 0)

\* a dispatch has just left through the catch block or without a reply
\* while the reveal of another dispatch is running
C15_Witness ==
  \E d, e \in Dispatches :
    /\ d # e
    /\ disp[d].exit \in {"apology", "noReply", "cancelled", "aborted"}
    /\ reveal[e].armed
    /\ isTyping = TRUE

\* what splitForTyping returns for the replies of the model
ReplySplits ==
  { splitForTyping(m) : m \in TypingReplies \cup {REPLY_PLAIN, REPLY_FENCED} }

IsPrefixOf(s, t) == Len(s) <= Len(t) /\ s = SubSeq(t, 1, Len(s))

\* C16: the content of a reply message is always a prefix of the typed
\* part of its reply (no character of the suffix) or the typed part
\* followed by the whole suffix: while the interval is armed, and after a
\* stop or a replacement, it is typed[0 : cursor]; the suffix is there only
\* after the tick that found the cursor at the end of typed, all at once.
C16_SuffixAppendedWhole ==
  /\ \A d \in Dispatches :
       LET r == reveal[d] IN
         /\ (r.armed \/ r.cleared \in {"stop", "replaced"})
              => /\ r.cursor = Min(Len(r.typed), TYPE_CHUNK_SIZE * r.ticks)
                 /\ ReplyContent(chats, d) = slice(r.typed, 0, r.cursor)
                 /\ ReplyContent(activeChat, d) = slice(r.typed, 0, r.cursor)
         /\ r.cleared = "complete"
              => /\ r.cursor = Len(r.typed)
                 /\ ReplyContent(chats, d) = r.typed \o r.suffix
                 /\ ReplyContent(activeChat, d) = r.typed \o r.suffix
  /\ \A d \in Dispatches :
       HasReplyMessage(chats, d)
         => \E s \in ReplySplits :
              \/ IsPrefixOf(ReplyContent(chats, d), s.typed)
              \/ ReplyContent(chats, d) = s.typed \o s.suffix

\* one tick of a reveal of 20 characters and a code block has run: the
\* content is the first chunk, the code block is not shown
C16_Witness ==
  \E d \in Dispatches :
    /\ reveal[d].armed
    /\ reveal[d].ticks = 1
    /\ reveal[d].suffix # EMPTY
    /\ Len(reveal[d].typed) = 20
    /\ Len(ReplyContent(chats, d)) = TYPE_CHUNK_SIZE

\* a triple-backtick marker starts at 0-based index i of t
FenceAt(t, i) ==
  /\ i + 3 <= Len(t)
  /\ t[i + 1] = BACKTICK /\ t[i + 2] = BACKTICK /\ t[i + 3] = BACKTICK

HasFence(t) == \E i \in 0..Len(t) : FenceAt(t, i)

\* C17: for a text without a triple-backtick marker splitForTyping returns
\* (text, ""); otherwise, with i the index of the first marker, the suffix
\* is text[i:] unmodified and typed is text[0:i] without its trailing white
\* space; typed never contains a marker, and a non-empty suffix starts
\* with one.
C17_SplitAtFirstFence ==
  (call.fn = "splitForTyping" /\ call.ret # << >>)
    => LET text == call.args[1]
           out == call.ret[1]
       IN  /\ ~HasFence(text) => out = [typed |-> text, suffix |-> EMPTY]
           /\ HasFence(text) =>
                \E i \in 0..Len(text) :
                   /\ FenceAt(text, i)
                   /\ \A j \in 0..(i - 1) : ~FenceAt(text, j)
                   /\ out.suffix = SubSeq(text, i + 1, Len(text))
                   /\ IsPrefixOf(out.typed, SubSeq(text, 1, i))
                   /\ out.typed # EMPTY => Last(out.typed) \notin WhiteSpace
                   /\ \A k \in (Len(out.typed) + 1)..i : text[k] \in WhiteSpace
           /\ ~HasFence(out.typed)
           /\ out.suffix # EMPTY => FenceAt(out.suffix, 0)

\* a text with a letter and white space before the marker has been split
C17_Witness ==
  /\ call.fn = "splitForTyping"
  /\ call.ret # << >>
  /\ call.ret[1].typed = <<"a">>
  /\ Len(call.ret[1].suffix) = 4
  /\ Len(call.args[1]) = 6

\* the keyword penalties of the identifiers of SelectorNames, read off
\* their spelling: -1000 for "mini", "lite" or "small", -800 for "instant"
\* or "fast", whatever the case of the letters
KeywordPenalty ==
  [n \in SelectorNames |->
     CASE n \in {M_A_MINI, M_X_SMALL} -> 0 - MINI_PENALTY
       [] n = M_LLAMA_INSTANT -> 0 - FAST_PENALTY
       [] n = M_LITE_FAST -> 0 - MINI_PENALTY - FAST_PENALTY
       [] OTHER -> 0]

\* candidate i of the list is ranked before candidate j: lower penalty, or
\* the same penalty and earlier in the list
RankedBefore(list, i, j) ==
  \/ KeywordPenalty[list[i]] < KeywordPenalty[list[j]]
  \/ KeywordPenalty[list[i]] = KeywordPenalty[list[j]] /\ i < j

BestIndex(list) ==
  CHOOSE i \in 1..Len(list) : \A j \in (1..Len(list)) \ {i} : RankedBefore(list, i, j)

SecondIndex(list) ==
  CHOOSE i \in (1..Len(list)) \ {BestIndex(list)} :
    \A j \in (1..Len(list)) \ {BestIndex(list), i} : RankedBefore(list, i, j)

Returned == call.fn = "pickFastModel" /\ call.ret # << >>

NumericTokenSum == [n \in {M_7B, M_70B} |-> IF n = M_7B THEN 7 ELSE 70]

\* C19 (as claimed): of candidates with the same keyword penalties, none of
\* them the current model, the one whose numeric tokens sum to the largest
\* value is returned ("m-70b" rather than "m-7b", in either list order).
C19_LargerNumericSumWins ==
  Returned
    => LET list == call.args[1]
           current == call.args[2]
           out == call.ret[1]
       IN  ( /\ Len(list) >= 1
             /\ \A i \in 1..Len(list) : list[i] \in DOMAIN NumericTokenSum
             /\ \A i \in 1..Len(list) : list[i] # current )
             => /\ out \in DOMAIN NumericTokenSum
                /\ \A i \in 1..Len(list) : NumericTokenSum[out] >= NumericTokenSum[list[i]]

\* the candidates of the list with the lowest keyword penalty
Lowest(list) ==
  { list[i] : i \in { k \in 1..Len(list) :
       \A j \in 1..Len(list) : KeywordPenalty[list[k]] <= KeywordPenalty[list[j]] } }

\* C20: the matching ignores case, "mini", "lite" or "small" count -1000,
\* "instant" or "fast" count -800, and both add up: when the current model
\* is not among the candidates with the lowest total, one of those is
\* returned, and when a single candidate has the lowest total and is not
\* the current model, it is the one returned; for llama-3.1-8b-instant and
\* llama-3.3-70b-versatile with the latter current, the former is returned.
C20_KeywordPenalties ==
  Returned
    => LET list == call.args[1]
           current == call.args[2]
           out == call.ret[1]
       IN  /\ (Len(list) >= 1 /\ current \notin Lowest(list)) => out \in Lowest(list)
           /\ \A x \in SelectorNames :
                (Lowest(list) = {x} /\ x # current) => out = x
           /\ (list = <<M_LLAMA_INSTANT, M_LLAMA_VERSATILE>> /\ current = M_LLAMA_VERSATILE)
                => out = M_LLAMA_INSTANT

\* the candidate written in capitals that has both penalties is returned
C20_Witness ==
  /\ Returned
  /\ call.args = << <<M_LLAMA_INSTANT, M_A_MINI, M_LITE_FAST>>, M_70B >>
  /\ call.ret = <<M_LITE_FAST>>

\* the dispatches whose handler has started and whose record is still kept
Started == {d \in Dispatches : disp[d].text # EMPTY}

\* C21: a dispatch renames the chat if and only if the chat had no message
\* when the dispatch started, and after a renaming dispatch the title is
\* the first 50 characters of its text, followed by "..." exactly when the
\* text is longer.
C21_RenamedIffNoPriorMessage ==
  \A d \in Started :
    /\ disp[d].renamed <=> disp[d].prior = 0
    /\ (disp[d].renamed /\ disp[d].pc \in {"upload", "chat"} /\ Running = {d})
         => chats.title = TitleOf(disp[d].text)

\* C22: the timeout timer of an attempt is released on every way the
\* attempt ends: the only timer a dispatch has armed is the one of its
\* pending attempt, a dispatch without a pending attempt has none, and every
\* earlier attempt has ended; so a timer that fires aborts the attempt that
\* armed it.
C22_TimeoutTimerReleased ==
  \A d \in Dispatches :
    /\ disp[d].timer = IF disp[d].pc = "chat" THEN {Len(disp[d].reqs)} ELSE {}
    /\ Len(disp[d].ends) = Len(disp[d].reqs) - (IF disp[d].pc = "chat" THEN 1 ELSE 0)

\* a first attempt has timed out and its timer has fired, the retry has been
\* superseded by a later dispatch, and no timer of the dispatch is armed
C22_Witness ==
  \E d \in Dispatches :
    /\ disp[d].ends = <<"timedOut", "superseded">>
    /\ disp[d].pc # "chat"
    /\ disp[d].timer = {}

\* the reveal intervals that are armed
Armed == {d \in Dispatches : reveal[d].armed}

\* one interval at most, held by typingRef; a cleared interval is not armed
OneRevealTimer ==
  /\ Cardinality(Armed) <= 1
  /\ \A d \in Dispatches :
       /\ reveal[d].armed => typingRef = d
       /\ reveal[d].cleared # "" => ~reveal[d].armed

\* C23: at most one reveal interval is armed at any time, the armed one is
\* the one typingRef holds, and an interval that has been cleared (by the
\* start of another reveal, by a stop or on completion) is not armed; no
\* step changes the message of an interval that is not armed or arms it
\* again.
C23_OneRevealTimer == []OneRevealTimer /\ [][FrozenOnceCleared]_vars

\* a reveal is started while the reveal of an earlier dispatch is running
\* after one tick: the earlier interval is cleared, the new one is armed
C23_Witness ==
  \E d, e \in Dispatches :
    /\ d # e
    /\ reveal[e].cleared = "replaced"
    /\ reveal[e].ticks = 1
    /\ Armed = {d}

\* the user messages of dispatch d in a view of the chat
UserBy(view, d) ==
  SelectSeq(view.messages, LAMBDA m : m.id = <<d, "user">>)

\* dispatch d has exactly one user message in the view, with its text
OneUserMessage(view, d) ==
  /\ Len(UserBy(view, d)) = 1
  /\ UserBy(view, d)[1].role = "user"
  /\ UserBy(view, d)[1].content \in Texts
  /\ disp[d].text # EMPTY => UserBy(view, d)[1].content = disp[d].text

\* C24: in the chat list and in the active chat, every dispatch that has
\* started has exactly one user message, with the request text as content,
\* from the step that starts it on and whatever its outcome.
C24_OneUserMessageKept ==
  \A d \in Dispatches :
    disp[d].pc # "none" => OneUserMessage(chats, d) /\ OneUserMessage(activeChat, d)

\* C25: the active chat has the same title and the same message sequence as
\* the entry of the chat in the chat list, after every handler run, the one
\* that sends the first message of an empty chat included.
C25_ViewsConsistent ==
  /\ activeChat.title = chats.title
  /\ activeChat.messages = chats.messages

\* C26: a reveal that has started eventually completes (the message then
\* holds prefix + suffix) unless the user stops it.
C26_RevealEventuallyCompletes ==
  \A d \in Dispatches :
    reveal[d].armed ~> reveal[d].cleared \in {"complete", "stop"}

\* C27: every started dispatch eventually leaves its network waits, and the
\* busy flag is eventually cleared, whatever the backend does.
C27_DispatchEventuallyExits ==
  /\ \A d \in Dispatches : InFlight(d) ~> ~InFlight(d)
  /\ isLoading ~> ~isLoading

\* C28: when a reveal has run to completion, the content of the assistant
\* message is the reply text received from the backend, character for
\* character.
C28_CompletedRevealShowsReply ==
  \A d \in Dispatches :
    reveal[d].cleared = "complete"
      => /\ HasReplyMessage(chats, d)
         /\ ReplyContent(chats, d) = reveal[d].reply

\* a stop has found dispatch d waiting for the network
Cancelled(d) == disp[d].stopped # ""

\* C29: a dispatch inserts at most one assistant message: exactly one
\* (the message that is revealed) when a non-empty string reply is
\* delivered, exactly the apology when it fails, and none when it is
\* cancelled or the reply is missing, not a string or empty.
C29_AtMostOneAssistantMessage ==
  \A d \in Dispatches :
    LET a == AssistantBy(chats, d) IN
      /\ Len(a) <= 1
      /\ disp[d].exit = "reply" => (Len(a) = 1 /\ a[1].id = <<d, "assistant">>)
      /\ EndedInFailure(d) => a = <<ApologyOf(d)>>
      /\ Cancelled(d) => a = << >>
      /\ disp[d].exit = "noReply" => a = << >>

\* the list /api/models gives for provider p, as refreshModels stores it
ListOf(p) == Distinct(ModelsOf[p])

\* C30: once every model-list request has been answered, without an error,
\* the candidate list is the list of the active provider, whatever the order
\* of the responses.
C30_ModelsOfActiveProvider ==
  (pending = << >> /\ modelError = NO_ERROR) => models = ListOf(settings.provider)

====
